---- MODULE Spec2Model ----
(***************************************************************************)
(* SimpleComm: the SimplePacket codec (simple_packet.py), its shared range *)
(* check (simplecomm_utils.py) and the SimpleComm framer (__init__.py).    *)
(*                                                                         *)
(* A bytearray is a sequence of integers 0..255; Python index i is index   *)
(* i+1 here.  A raised exception is the name of its Python class, "ok"     *)
(* when the call returns.  Python's None is the empty sequence.            *)
(***************************************************************************)
EXTENDS Integers, Sequences, FiniteSets, TLC

VARIABLES
    pkt,        \* SimplePacket._data of the application's packet
    address,    \* SimpleComm.address, the process-wide local address
    payload,    \* the payload the application has set since SimplePacket() or the
                \* last clear(): None while unset, <<bytes>> once set
    last,       \* the last call on the packet or the framer's send, with its outcome
    stream,     \* the bytes of the transport that have not been read yet
    parts,      \* how the bytes written to the transport were produced, in order
    rpc,        \* where the running receive() call is: idle, seek, len, body, done
    tlen,       \* receive()'s local tlen
    returned,   \* what each finished receive() call returned, in call order
    shortRead,  \* some read returned fewer bytes than the transport still held
    ioError     \* the transport's read raised

vars == <<pkt, payload, address, last, stream, parts, rpc, tlen, returned, shortRead, ioError>>

packetVars == <<pkt, payload, address, last>>
streamVars == <<stream, parts, rpc, tlen, returned, shortRead, ioError>>

----------------------------------------------------------------------------
(* Program constants *)

SYN == 2
MAX_DATA_LEN == 128
DATA_INDEX_SYN == 0
DATA_INDEX_EXPECTED_LEN == 1
DATA_INDEX_SOURCE == 2
DATA_INDEX_DESTINATION == 3
DATA_INDEX_TYPE == 4
DATA_INDEX_DATA == 5
MIN_TLEN == 4

None == <<>>
Ok == "ok"
\* the exception _check_integer_is_valid raises, and the one getData raises
RangeError == "AttributeError"
NoDataError == "AttributeError"

----------------------------------------------------------------------------
(* Bounds of the model *)

\* widths setInteger is called with: 1..MaxNBytes (and past MAX_DATA_LEN)
MaxNBytes == 2
\* frames one run writes to the transport
MaxFrames == 2
\* receive() calls of one run
MaxReceives == 3

----------------------------------------------------------------------------
(* Helpers on byte sequences *)

Min(a, b) == IF a < b THEN a ELSE b

Repeat(b, n) == [i \in 1..n |-> b]

\* Python's s[from:] on a sequence
SliceFrom(s, from) == SubSeq(s, from + 1, Len(s))

\* Python's s[from:to], to clipped to len(s)
Slice(s, from, to) == SubSeq(s, from + 1, Min(to, Len(s)))

\* s[lo] + ... + s[hi], by halves
RECURSIVE SumRange(_, _, _)
SumRange(s, lo, hi) ==
    IF lo > hi THEN 0
    ELSE IF lo = hi THEN s[lo]
    ELSE LET mid == (lo + hi) \div 2
         IN  SumRange(s, lo, mid) + SumRange(s, mid + 1, hi)

\* Python's sum(s)
Sum(s) == SumRange(s, 1, Len(s))

\* v > 2**e and v < -(2**e) for the integers of the model, all below 2**31
GreaterThanPow2(v, e) == e < 31 /\ v > 2 ^ e
LessThanMinusPow2(v, e) == e < 31 /\ v < -(2 ^ e)

----------------------------------------------------------------------------
(* simplecomm_utils.py *)

\* _check_integer_is_valid: "ok", or the AttributeError it raises
check_integer_is_valid(integer, n_bytes, signed) ==
    IF ~signed
    THEN \* min_value = 0, max_value = 2 ** (8 * n_bytes)
         IF integer < 0 \/ GreaterThanPow2(integer, 8 * n_bytes)
         THEN RangeError ELSE Ok
    ELSE \* min_value = -2 ** (8 * n_bytes - 1), max_value = 2 ** (8 * n_bytes - 1) - 1
         IF LessThanMinusPow2(integer, 8 * n_bytes - 1)
            \/ GreaterThanPow2(integer + 1, 8 * n_bytes - 1)
         THEN RangeError ELSE Ok

----------------------------------------------------------------------------
(* simple_packet.py: each method is an operator from the packet's _data to  *)
(* [data |-> the _data after the call, err |-> "ok" or the exception]       *)

Returns(d) == [data |-> d, err |-> Ok]
Raises(d, e) == [data |-> d, err |-> e]

\* bytearray item assignment: a value outside range(256) raises ValueError
SetItem(d, index, value) ==
    IF value \in 0..255
    THEN Returns([d EXCEPT ![index + 1] = value])
    ELSE Raises(d, "ValueError")

clear(d) ==
    [d EXCEPT ![DATA_INDEX_SYN + 1] = SYN,
              ![DATA_INDEX_EXPECTED_LEN + 1] = 0,
              ![DATA_INDEX_SOURCE + 1] = 0,
              ![DATA_INDEX_DESTINATION + 1] = 0,
              ![DATA_INDEX_TYPE + 1] = 0]

\* SimplePacket(): bytearray(5 + MAX_DATA_LEN + 1), then clear()
SimplePacket == clear(Repeat(0, 5 + MAX_DATA_LEN + 1))

setSource(d, source) ==
    LET c == check_integer_is_valid(source, 1, FALSE)
    IN  IF c # Ok THEN Raises(d, c) ELSE SetItem(d, DATA_INDEX_SOURCE, source)

setDestination(d, destination) ==
    LET c == check_integer_is_valid(destination, 1, FALSE)
    IN  IF c # Ok THEN Raises(d, c) ELSE SetItem(d, DATA_INDEX_DESTINATION, destination)

setType(d, packet_type) ==
    LET c == check_integer_is_valid(packet_type, 1, FALSE)
    IN  IF c # Ok THEN Raises(d, c) ELSE SetItem(d, DATA_INDEX_TYPE, packet_type)

getSource(d) == d[DATA_INDEX_SOURCE + 1]
getDestination(d) == d[DATA_INDEX_DESTINATION + 1]
getType(d) == d[DATA_INDEX_TYPE + 1]

\* setData that stores the payload before it checks the length
setData_late_check(d, value) ==
    IF Len(value) > MAX_DATA_LEN
    THEN Raises(SubSeq(d, 1, DATA_INDEX_DATA) \o value, "OverflowError")
    ELSE Returns([SubSeq(d, 1, DATA_INDEX_DATA) \o value
                     EXCEPT ![DATA_INDEX_EXPECTED_LEN + 1] = Len(value)])

\* setData: _data[5:] = value replaces the whole payload region
setData(d, value) ==
    IF Len(value) > MAX_DATA_LEN
    THEN Raises(d, "OverflowError")
    ELSE Returns([SubSeq(d, 1, DATA_INDEX_DATA) \o value
                     EXCEPT ![DATA_INDEX_EXPECTED_LEN + 1] = Len(value)])

\* the n_bytes low bytes of value, little-endian, two's complement; the integers
\* of the model are below 2**31 in size, so past the fourth byte is the sign
LittleEndian(value, n_bytes) ==
    [i \in 1..n_bytes |->
        IF i <= 4 THEN (value \div (256 ^ (i - 1))) % 256
        ELSE IF value < 0 THEN 255 ELSE 0]

\* what is left of value above its n_bytes low bytes
HighPart(value, n_bytes) ==
    IF n_bytes < 4 THEN value \div (256 ^ n_bytes)
    ELSE IF value < 0 THEN -1 ELSE 0

\* int.to_bytes(n_bytes, "little", signed): OverflowError when value does not fit
to_bytes(value, n_bytes, signed) ==
    LET bytes == LittleEndian(value, n_bytes)
        high == HighPart(value, n_bytes)
        fits == IF ~signed THEN value >= 0 /\ high = 0
                ELSE \/ high = 0 /\ bytes[n_bytes] < 128
                     \/ high = -1 /\ bytes[n_bytes] >= 128
    IN  IF fits THEN [err |-> Ok, ret |-> bytes]
        ELSE [err |-> "OverflowError", ret |-> <<>>]

setInteger(d, value, n_bytes, signed) ==
    LET c == check_integer_is_valid(value, n_bytes, signed)
        b == to_bytes(value, n_bytes, signed)
    IN  IF c # Ok THEN Raises(d, c)
        ELSE IF b.err # Ok THEN Raises(d, b.err)
        ELSE setData(d, b.ret)

\* the UTF-8 encoding of one code point below 0x800
Utf8(cp) ==
    IF cp < 128 THEN <<cp>> ELSE <<192 + (cp \div 64), 128 + (cp % 64)>>

\* bytearray(value, "utf-8") of a string given as its code points, by halves
RECURSIVE Utf8Range(_, _, _)
Utf8Range(s, lo, hi) ==
    IF lo > hi THEN <<>>
    ELSE IF lo = hi THEN Utf8(s[lo])
    ELSE LET mid == (lo + hi) \div 2
         IN  Utf8Range(s, lo, mid) \o Utf8Range(s, mid + 1, hi)

Utf8Encode(s) == Utf8Range(s, 1, Len(s))

setString(d, value) == setData(d, Append(Utf8Encode(value), 0))

\* getData without the test for a stored length of 0
getData_unchecked(d) ==
    [err |-> Ok,
     ret |-> Slice(d, DATA_INDEX_DATA, DATA_INDEX_DATA + d[DATA_INDEX_EXPECTED_LEN + 1])]

\* getData: [err |-> "ok" or the AttributeError, ret |-> the payload]
getData(d) ==
    LET data_length == d[DATA_INDEX_EXPECTED_LEN + 1]
    IN  IF data_length = 0
        THEN [err |-> NoDataError, ret |-> <<>>]
        ELSE [err |-> Ok,
              ret |-> Slice(d, DATA_INDEX_DATA, DATA_INDEX_DATA + data_length)]

\* int.from_bytes(bytes, "little", signed) is an integer of the model when what
\* lies past the fourth byte is the sign of a value below 2**31 in size
IsModelInt(bytes, signed) ==
    LET n == Len(bytes)
        negative == signed /\ n > 0 /\ bytes[n] >= 128
    IN  IF n <= 3 THEN TRUE
        ELSE /\ negative <=> bytes[4] >= 128
             /\ \A i \in 5..n : bytes[i] = (IF negative THEN 255 ELSE 0)

\* int.from_bytes that reads every byte as unsigned
from_bytes_unsigned(bytes, signed) ==
    SumRange([i \in 1..Min(Len(bytes), 4) |-> bytes[i] * 256 ^ (i - 1)],
             1, Min(Len(bytes), 4))

\* int.from_bytes(bytes, "little", signed): the weighted sum of the bytes, less
\* 256**len when signed and the top bit of the last byte is set
from_bytes(bytes, signed) ==
    LET n == Len(bytes)
        negative == signed /\ n > 0 /\ bytes[n] >= 128
        low == SumRange([i \in 1..Min(n, 3) |-> bytes[i] * 256 ^ (i - 1)],
                        1, Min(n, 3))
    IN  IF n <= 3 THEN low - (IF negative THEN 256 ^ n ELSE 0)
        ELSE low + (bytes[4] - (IF negative THEN 256 ELSE 0)) * 256 ^ 3

\* getInteger: the slice _data[5 : 5 + n_bytes] is decoded whatever its length
getInteger(d, n_bytes, signed) ==
    [err |-> Ok,
     ret |-> from_bytes(Slice(d, DATA_INDEX_DATA, DATA_INDEX_DATA + n_bytes), signed)]

----------------------------------------------------------------------------
(* __init__.py: the framer *)

\* calcCRC: sum(buffer) & 0xff
calcCRC(buffer) == Sum(buffer) % 256

\* send(), lines 48-55: the buffer built from the header bytes and the payload
FrameBytes(destination, source, type, data) ==
    LET buffer == <<SYN, Len(data) + 4, destination, source, type>> \o data
    IN  Append(buffer, calcCRC(SliceFrom(buffer, 2)))

\* send that fills in the source only where the caller has left it 0
send_keep_source(d, addr, destination, type) ==
    LET r1 == IF getSource(d) # 0 THEN Returns(d) ELSE setSource(d, addr)
        r2 == IF r1.err # Ok \/ destination = None THEN r1
              ELSE setDestination(r1.data, destination[1])
        r == IF r2.err # Ok \/ type = None THEN r2
             ELSE setType(r2.data, type[1])
        data == getData(r.data)
    IN  IF r.err # Ok THEN [data |-> r.data, err |-> r.err, wrote |-> <<>>]
        ELSE IF data.err # Ok THEN [data |-> r.data, err |-> data.err, wrote |-> <<>>]
        ELSE [data |-> r.data, err |-> Ok,
              wrote |-> <<FrameBytes(getDestination(r.data), getSource(r.data),
                                     getType(r.data), data.ret)>>]

\* send(stream, packet, destination, type) with the local address addr:
\* [data |-> the packet after the call, err |-> "ok" or the exception,
\*  wrote |-> the byte strings handed to stream.write, in order]
send(d, addr, destination, type) ==
    LET r1 == setSource(d, addr)
        r2 == IF r1.err # Ok \/ destination = None THEN r1
              ELSE setDestination(r1.data, destination[1])
        r == IF r2.err # Ok \/ type = None THEN r2
             ELSE setType(r2.data, type[1])
        data == getData(r.data)
    IN  IF r.err # Ok THEN [data |-> r.data, err |-> r.err, wrote |-> <<>>]
        ELSE IF data.err # Ok THEN [data |-> r.data, err |-> data.err, wrote |-> <<>>]
        ELSE [data |-> r.data, err |-> Ok,
              wrote |-> <<FrameBytes(getDestination(r.data), getSource(r.data),
                                     getType(r.data), data.ret)>>]

\* async_send that leaves the packet's source as the caller set it
async_send_unsourced(d, addr, destination, type, aio) ==
    LET r2 == IF destination = None THEN Returns(d)
              ELSE setDestination(d, destination[1])
        r == IF r2.err # Ok \/ type = None THEN r2
             ELSE setType(r2.data, type[1])
        data == getData(r.data)
    IN  IF r.err # Ok THEN [data |-> r.data, err |-> r.err, wrote |-> <<>>]
        ELSE IF data.err # Ok THEN [data |-> r.data, err |-> data.err, wrote |-> <<>>]
        ELSE [data |-> r.data, err |-> Ok,
              wrote |-> <<FrameBytes(getDestination(r.data), getSource(r.data),
                                     getType(r.data), data.ret)>>]

\* async_send(stream, packet, destination, type) with the local address addr, on
\* a stream that is an aioserial.Serial (aio) or not: lines 15-31 build the
\* buffer, lines 33-36 hand it to stream.write_async or to stream.write
async_send(d, addr, destination, type, aio) ==
    LET r1 == setSource(d, addr)
        r2 == IF r1.err # Ok \/ destination = None THEN r1
              ELSE setDestination(r1.data, destination[1])
        r == IF r2.err # Ok \/ type = None THEN r2
             ELSE setType(r2.data, type[1])
        data == getData(r.data)
        buffer == FrameBytes(getDestination(r.data), getSource(r.data),
                             getType(r.data), data.ret)
        write_async == <<buffer>>
        write == <<buffer>>
    IN  IF r.err # Ok THEN [data |-> r.data, err |-> r.err, wrote |-> <<>>]
        ELSE IF data.err # Ok THEN [data |-> r.data, err |-> data.err, wrote |-> <<>>]
        ELSE [data |-> r.data, err |-> Ok,
              wrote |-> IF aio THEN write_async ELSE write]

\* receive(), lines 128-134: the packet built from a body whose checksum matched;
\* an exception of a setter is caught by the bare except and None is returned
Materialize(buffer) ==
    LET r1 == setDestination(SimplePacket, buffer[1])
        r2 == IF r1.err # Ok THEN r1 ELSE setSource(r1.data, buffer[2])
        r3 == IF r2.err # Ok THEN r2 ELSE setType(r2.data, buffer[3])
        r == IF r3.err # Ok THEN r3
             ELSE setData(r3.data, SubSeq(buffer, 4, Len(buffer) - 1))
    IN  IF r.err = Ok THEN r.data ELSE None

\* a checksum test that lets every body pass
ChecksumMatches_any(buffer) == TRUE

\* the checksum test of receive(), line 124-125: crc == buffer[-1]
ChecksumMatches(buffer) ==
    calcCRC(SubSeq(buffer, 1, Len(buffer) - 1)) = buffer[Len(buffer)]

\* how many bytes stream.read(n) may return when the transport holds avail more:
\* all it can give, or fewer (never none while bytes are to come)
ReadSizes(n, avail) ==
    LET m == Min(n, avail)
    IN  {m} \cup (IF m > 1 THEN {1, m - 1} ELSE {})

----------------------------------------------------------------------------
(* Inputs *)

\* arguments of setSource, setDestination and setType
HeaderArgs == {-1, 255, 256}

\* local addresses set with setAddress
Addresses == {1}

\* destination and type arguments of send: None, or a byte
DestinationArgs == {None, <<2>>}
TypeArgs == {None, <<15>>}

\* arguments of setData: lengths 0, 2, 128, 129 and 130
DataArgs ==
    {<<>>, <<65, 66>>, Repeat(65, MAX_DATA_LEN),
     Repeat(65, MAX_DATA_LEN + 1), Repeat(66, MAX_DATA_LEN + 2)}

\* the range the specification gives a width and a signedness
SpecMin(n_bytes, signed) == IF signed THEN -(2 ^ (8 * n_bytes - 1)) ELSE 0
SpecMax(n_bytes, signed) ==
    IF signed THEN 2 ^ (8 * n_bytes - 1) - 1 ELSE 2 ^ (8 * n_bytes) - 1

\* setInt and setLong (widths 4 and 8) of the self-test's values and of the ends
\* of the ranges that the integers of the model hold
WideIntegerArgs ==
    {<<456, 4, TRUE>>, <<-456, 8, TRUE>>, <<456, 8, FALSE>>,
     <<-2147483647 - 1, 4, TRUE>>, <<2147483647, 4, TRUE>>, <<2147483647, 4, FALSE>>}

\* arguments of setInteger: the two ends of each range, the values one outside
\* them, and widths no payload can hold
IntegerArgs ==
    {<<v, n, s>> : v \in {-1}, n \in {MAX_DATA_LEN, MAX_DATA_LEN + 1}, s \in BOOLEAN}
    \cup UNION {{<<SpecMin(n, s) - 1, n, s>>, <<SpecMin(n, s), n, s>>,
                 <<SpecMax(n, s), n, s>>, <<SpecMax(n, s) + 1, n, s>>}
                : <<n, s>> \in (1..MaxNBytes) \X BOOLEAN}

\* widths getInteger is called with
GetWidths == (1..MaxNBytes) \cup {4, 8}

\* arguments of setString, as code points: "", one with a two-byte code point,
\* and strings of 127 and 128 characters
StringArgs ==
    {<<>>, <<174, 65>>, Repeat(65, MAX_DATA_LEN - 1), Repeat(65, MAX_DATA_LEN)}

\* payloads of the packets the application sends: lengths 0, 2, 3 and 128
Payloads == {<<>>, <<65, 66>>, <<SYN, 4, 255>>, Repeat(65, MAX_DATA_LEN)}

----------------------------------------------------------------------------
(* State *)

Call(op, args, err, ret, wrote) ==
    [err |-> err, ret |-> ret, wrote |-> wrote, op |-> op, args |-> args]

\* after p = SimplePacket(), with SimpleComm.address = 0 and an empty transport
Init ==
    /\ pkt = SimplePacket
    /\ payload = None
    /\ address = 0
    /\ last = Call("SimplePacket", <<>>, Ok, <<>>, <<>>)
    /\ stream = <<>>
    /\ parts = <<>>
    /\ rpc = "idle"
    /\ tlen = 0
    /\ returned = <<>>
    /\ shortRead = FALSE
    /\ ioError = FALSE

\* the transport has carried nothing and no receive() has run
Quiet == parts = <<>> /\ rpc = "idle"

----------------------------------------------------------------------------
(* The application's calls on its packet *)

Clear ==
    /\ Quiet
    /\ pkt' = clear(pkt)
    /\ payload' = None
    /\ last' = Call("clear", <<>>, Ok, <<>>, <<>>)
    /\ UNCHANGED <<address, streamVars>>

SetSource ==
    \E v \in HeaderArgs :
        LET r == setSource(pkt, v)
        IN  /\ Quiet
            /\ pkt' = r.data
            /\ last' = Call("setSource", <<v>>, r.err, <<>>, <<>>)
            /\ UNCHANGED <<payload, address, streamVars>>

SetDestination ==
    \E v \in HeaderArgs :
        LET r == setDestination(pkt, v)
        IN  /\ Quiet
            /\ pkt' = r.data
            /\ last' = Call("setDestination", <<v>>, r.err, <<>>, <<>>)
            /\ UNCHANGED <<payload, address, streamVars>>

SetType ==
    \E v \in HeaderArgs :
        LET r == setType(pkt, v)
        IN  /\ Quiet
            /\ pkt' = r.data
            /\ last' = Call("setType", <<v>>, r.err, <<>>, <<>>)
            /\ UNCHANGED <<payload, address, streamVars>>

SetData ==
    \E value \in DataArgs :
        LET r == setData(pkt, value)
        IN  /\ Quiet
            /\ pkt' = r.data
            /\ payload' = (IF r.err = Ok THEN <<value>> ELSE payload)
            /\ last' = Call("setData", <<value>>, r.err, <<>>, <<>>)
            /\ UNCHANGED <<address, streamVars>>

\* setInteger(value, n_bytes, signed) with a = <<value, n_bytes, signed>>
SetIntegerOf(a) ==
    LET r == setInteger(pkt, a[1], a[2], a[3])
    IN  /\ Quiet
        /\ pkt' = r.data
        /\ payload' = (IF r.err = Ok THEN <<SliceFrom(r.data, DATA_INDEX_DATA)>>
                        ELSE payload)
        /\ last' = Call("setInteger", a, r.err, <<>>, <<>>)
        /\ UNCHANGED <<address, streamVars>>

SetInteger == \E a \in IntegerArgs : SetIntegerOf(a)

SetWideInteger == \E a \in WideIntegerArgs : SetIntegerOf(a)

SetString ==
    \E value \in StringArgs :
        LET r == setString(pkt, value)
        IN  /\ Quiet
            /\ pkt' = r.data
            /\ payload' = (IF r.err = Ok THEN <<SliceFrom(r.data, DATA_INDEX_DATA)>>
                            ELSE payload)
            /\ last' = Call("setString", <<value>>, r.err, <<>>, <<>>)
            /\ UNCHANGED <<address, streamVars>>

GetData ==
    LET r == getData(pkt)
    IN  /\ Quiet
        /\ last' = Call("getData", <<>>, r.err, r.ret, <<>>)
        /\ UNCHANGED <<pkt, payload, address, streamVars>>

\* getInteger(n_bytes, signed), where the result is an integer of the model
GetInteger ==
    \E n_bytes \in GetWidths, signed \in BOOLEAN :
        LET r == getInteger(pkt, n_bytes, signed)
        IN  /\ Quiet
            /\ IsModelInt(Slice(pkt, DATA_INDEX_DATA, DATA_INDEX_DATA + n_bytes), signed)
            /\ last' = Call("getInteger", <<n_bytes, signed>>, r.err, r.ret, <<>>)
            /\ UNCHANGED <<pkt, payload, address, streamVars>>

\* SimpleComm.setAddress, before anything is sent
SetAddress ==
    \E a \in Addresses :
        /\ Quiet
        /\ address' = a
        /\ last' = Call("setAddress", <<a>>, Ok, <<>>, <<>>)
        /\ UNCHANGED <<pkt, payload, streamVars>>

\* SimpleComm.send of the packet as it stands, on a stream that records the writes
Send ==
    \E destination \in DestinationArgs, type \in TypeArgs :
        LET r == send(pkt, address, destination, type)
        IN  /\ Quiet
            /\ pkt' = r.data
            /\ last' = Call("send", <<destination, type>>, r.err, <<>>, r.wrote)
            /\ UNCHANGED <<payload, address, streamVars>>

\* SimpleComm.async_send of the packet as it stands, awaited to its end, on a
\* stream that records the writes
AsyncSend ==
    \E destination \in DestinationArgs, type \in TypeArgs, aio \in BOOLEAN :
        LET r == async_send(pkt, address, destination, type, aio)
        IN  /\ Quiet
            /\ pkt' = r.data
            /\ last' = Call("async_send", <<destination, type, aio>>, r.err, <<>>, r.wrote)
            /\ UNCHANGED <<payload, address, streamVars>>

PacketNext ==
    \/ Clear
    \/ SetSource
    \/ SetDestination
    \/ SetType
    \/ SetData
    \/ SetInteger
    \/ SetString
    \/ GetData
    \/ SetAddress
    \/ Send
    \/ AsyncSend

\* the packet codec and the send path, on one packet
SpecPacket == Init /\ [][PacketNext]_vars

IntegerNext ==
    \/ Clear
    \/ SetData
    \/ SetInteger
    \/ SetWideInteger
    \/ SetString
    \/ GetData
    \/ GetInteger

\* the payload of one packet, written and read back as bytes and as integers
SpecInteger == Init /\ [][IntegerNext]_vars

----------------------------------------------------------------------------
(* The transport: what is written to it before receive() reads it *)

\* the fields of a packet, as the application or the peer chose them
Fields(destination, source, type, value) ==
    [payload |-> value, source |-> source, destination |-> destination, type |-> type]

NoFields == Fields(0, 0, 0, <<>>)

\* one producer of stream bytes: its kind, the bytes it wrote, the packet it carries
Part(kind, bytes, p) == [bytes |-> bytes, kind |-> kind, p |-> p]

\* destinations and types of the packets the application sends
FrameDestinations == {2}
FrameTypes == {15}

\* the packet the application builds: SimplePacket(), setDestination, setType, setData
Build(f) ==
    LET r1 == setDestination(SimplePacket, f.destination)
        r2 == IF r1.err # Ok THEN r1 ELSE setType(r1.data, f.type)
    IN  IF r2.err # Ok THEN r2 ELSE setData(r2.data, f.payload)

\* the frame a peer sends for the packet f
PeerFrame(f) == FrameBytes(f.destination, f.source, f.type, f.payload)

\* line noise: bytes none of which is SYN
NoiseArgs == {<<0>>, <<255, 4>>, <<1, 3, 132, 65>>}

\* packets of a peer, and the delta by which their checksum byte arrives changed
CorruptArgs ==
    {<<Fields(2, 7, 15, <<65, 66>>), 1>>, <<Fields(255, SYN, 0, <<SYN, 6>>), 255>>,
     <<Fields(9, 1, 3, <<>>), 2>>, <<Fields(9, 1, 3, Repeat(65, MAX_DATA_LEN)), 128>>}

Corrupt(frame, delta) ==
    [frame EXCEPT ![Len(frame)] = (frame[Len(frame)] + delta) % 256]

\* packets of a peer whose payload is longer than a SimplePacket holds: their
\* frames carry a LEN of 133 and of 255, and a checksum that matches
OversizeArgs ==
    {Fields(2, 7, 15, Repeat(65, MAX_DATA_LEN + 1)),
     Fields(2, 7, 15, Repeat(66, 255 - MIN_TLEN))}

\* a SYN, a LEN of at least 4 and fewer body bytes than LEN; the bytes of the
\* third sum to its last byte, those of the fourth are a frame short of one byte
TruncatedArgs ==
    {<<SYN, 4>>, <<SYN, 5, 1, 65, 15>>, <<SYN, 6, 2, 1, 15, 65, 83>>,
     <<SYN, 6, 2, 1, 15, 65, 66>>, <<SYN, 255, 2, 1, 15, 65>>}

\* the application sends a packet it has just built
SendPacket ==
    \E value \in Payloads, destination \in FrameDestinations, type \in FrameTypes :
        LET f == Fields(destination, address, type, value)
            r == send(Build(f).data, address, None, None)
        IN  /\ rpc = "idle"
            /\ Cardinality({i \in DOMAIN parts : parts[i].kind = "send"}) < MaxFrames
            /\ pkt' = r.data
            /\ payload' = <<value>>
            /\ last' = Call("send", <<None, None>>, r.err, <<>>, r.wrote)
            /\ stream' = (IF r.wrote = <<>> THEN stream ELSE stream \o r.wrote[1])
            /\ parts' = Append(parts, Part("send",
                                   IF r.wrote = <<>> THEN <<>> ELSE r.wrote[1], f))
            /\ UNCHANGED <<address, rpc, tlen, returned, shortRead, ioError>>

\* what reaches the transport ahead of the application's frames
Inject(part) ==
    /\ Quiet
    /\ stream' = part.bytes
    /\ parts' = <<part>>
    /\ UNCHANGED <<packetVars, rpc, tlen, returned, shortRead, ioError>>

InjectNoise == \E n \in NoiseArgs : Inject(Part("noise", n, NoFields))

InjectShortLen == \E k \in 0..(MIN_TLEN - 1) : Inject(Part("shortlen", <<SYN, k>>, NoFields))

InjectCorrupt ==
    \E c \in CorruptArgs : Inject(Part("corrupt", Corrupt(PeerFrame(c[1]), c[2]), c[1]))

InjectTruncated == \E t \in TruncatedArgs : Inject(Part("truncated", t, NoFields))

InjectOversize == \E f \in OversizeArgs : Inject(Part("oversize", PeerFrame(f), f))

----------------------------------------------------------------------------
(* receive(), one stream.read at a time *)

\* receive() returns: the call is over, its locals are gone
Return(value) ==
    /\ rpc' = "done"
    /\ tlen' = 0
    /\ returned' = Append(returned, value)

ReceiveStart ==
    /\ rpc \in {"idle", "done"}
    /\ Len(returned) < MaxReceives
    /\ ~ioError
    /\ rpc' = "seek"
    /\ UNCHANGED <<packetVars, stream, parts, tlen, returned, shortRead, ioError>>

\* a seek that gives up at the first byte that is not SYN
ReceiveSeek_giveup ==
    /\ rpc = "seek"
    /\ IF stream = <<>>
       THEN Return(None) /\ UNCHANGED stream
       ELSE /\ stream' = Tail(stream)
            /\ IF Head(stream) # SYN
               THEN Return(None)
               ELSE rpc' = "len" /\ UNCHANGED <<tlen, returned>>
    /\ UNCHANGED <<packetVars, parts, shortRead, ioError>>

\* a seek that leaves a byte that is not SYN on the transport
ReceiveSeek_spin ==
    /\ rpc = "seek"
    /\ IF stream = <<>>
       THEN Return(None) /\ UNCHANGED stream
       ELSE IF Head(stream) # SYN
            THEN UNCHANGED <<stream, rpc, tlen, returned>>
            ELSE /\ stream' = Tail(stream)
                 /\ rpc' = "len"
                 /\ UNCHANGED <<tlen, returned>>
    /\ UNCHANGED <<packetVars, parts, shortRead, ioError>>

\* lines 105-110: r = stream.read(1); no byte ends the call, a SYN ends the seek
ReceiveSeek ==
    /\ rpc = "seek"
    /\ IF stream = <<>>
       THEN Return(None) /\ UNCHANGED stream
       ELSE /\ stream' = Tail(stream)
            /\ rpc' = (IF Head(stream) # SYN THEN "seek" ELSE "len")
            /\ UNCHANGED <<tlen, returned>>
    /\ UNCHANGED <<packetVars, parts, shortRead, ioError>>

\* a LEN below 4 ends the call
ReceiveLen_giveup ==
    /\ rpc = "len"
    /\ IF stream = <<>>
       THEN Return(None) /\ UNCHANGED stream
       ELSE /\ stream' = Tail(stream)
            /\ IF Head(stream) < MIN_TLEN
               THEN Return(None)
               ELSE /\ tlen' = Head(stream)
                    /\ rpc' = "body"
                    /\ UNCHANGED returned
    /\ UNCHANGED <<packetVars, parts, shortRead, ioError>>

\* lines 112-118: r = stream.read(1); tlen = r[0]; below 4 the seek starts again
ReceiveLen ==
    /\ rpc = "len"
    /\ IF stream = <<>>
       THEN Return(None) /\ UNCHANGED stream
       ELSE /\ stream' = Tail(stream)
            /\ tlen' = (IF Head(stream) < MIN_TLEN THEN 0 ELSE Head(stream))
            /\ rpc' = (IF Head(stream) < MIN_TLEN THEN "seek" ELSE "body")
            /\ UNCHANGED returned
    /\ UNCHANGED <<packetVars, parts, shortRead, ioError>>

\* a wrong checksum ends the call
ReceiveBody_giveup ==
    /\ rpc = "body"
    /\ \E k \in ReadSizes(tlen, Len(stream)) :
        LET buffer == SubSeq(stream, 1, k)
        IN  /\ stream' = SubSeq(stream, k + 1, Len(stream))
            /\ shortRead' = (shortRead \/ k < Min(tlen, Len(stream)))
            /\ IF Len(buffer) # tlen \/ ~ChecksumMatches(buffer)
               THEN Return(None)
               ELSE Return(Materialize(buffer))
    /\ UNCHANGED <<packetVars, parts, ioError>>

\* a short buffer is checked and decoded like a whole one
ReceiveBody_no_length_check ==
    /\ rpc = "body"
    /\ \E k \in ReadSizes(tlen, Len(stream)) :
        LET buffer == SubSeq(stream, 1, k)
        IN  /\ stream' = SubSeq(stream, k + 1, Len(stream))
            /\ shortRead' = (shortRead \/ k < Min(tlen, Len(stream)))
            /\ IF Len(buffer) < MIN_TLEN THEN Return(None)
               ELSE IF ~ChecksumMatches(buffer)
                    THEN rpc' = "seek" /\ tlen' = 0 /\ UNCHANGED returned
                    ELSE Return(Materialize(buffer))
    /\ UNCHANGED <<packetVars, parts, ioError>>

\* a body read that takes one byte more from the transport than it hands on
ReceiveBody_overread ==
    /\ rpc = "body"
    /\ \E k \in ReadSizes(tlen, Len(stream)) :
        LET buffer == SubSeq(stream, 1, k)
        IN  /\ stream' = SubSeq(stream, k + 2, Len(stream))
            /\ shortRead' = (shortRead \/ k < Min(tlen, Len(stream)))
            /\ IF Len(buffer) # tlen THEN Return(None)
               ELSE IF ~ChecksumMatches(buffer)
                    THEN rpc' = "seek" /\ tlen' = 0 /\ UNCHANGED returned
                    ELSE Return(Materialize(buffer))
    /\ UNCHANGED <<packetVars, parts, ioError>>

\* lines 120-134: buffer = stream.read(tlen); a short buffer ends the call, a wrong
\* checksum starts the seek again, a right one returns the packet
ReceiveBody ==
    /\ rpc = "body"
    /\ \E k \in ReadSizes(tlen, Len(stream)) :
        LET buffer == SubSeq(stream, 1, k)
        IN  /\ stream' = SubSeq(stream, k + 1, Len(stream))
            /\ shortRead' = (shortRead \/ k < Min(tlen, Len(stream)))
            /\ IF Len(buffer) # tlen THEN Return(None)
               ELSE IF ~ChecksumMatches(buffer)
                    THEN rpc' = "seek" /\ tlen' = 0 /\ UNCHANGED returned
                    ELSE Return(Materialize(buffer))
    /\ UNCHANGED <<packetVars, parts, ioError>>

\* a failed read that is tried again
ReceiveIOError_retry ==
    /\ rpc \in {"seek", "len", "body"}
    /\ ioError' = TRUE
    /\ UNCHANGED <<packetVars, stream, parts, rpc, tlen, returned, shortRead>>

\* lines 136-137: stream.read raises; the bare except returns None
ReceiveIOError ==
    /\ rpc \in {"seek", "len", "body"}
    /\ ioError' = TRUE
    /\ Return(None)
    /\ UNCHANGED <<packetVars, stream, parts, shortRead>>

Next ==
    \/ SetAddress
    \/ SendPacket
    \/ InjectNoise
    \/ InjectShortLen
    \/ InjectCorrupt
    \/ InjectTruncated
    \/ InjectOversize
    \/ ReceiveStart
    \/ ReceiveSeek
    \/ ReceiveLen
    \/ ReceiveBody
    \/ ReceiveIOError

\* the framer: frames and line noise on a transport, then receive() calls on it
Spec == Init /\ [][Next]_vars

\* the same, where a receive() call that has started goes on: each stream.read
\* of a finite stream returns, with bytes or with none
SpecLive ==
    /\ Spec
    /\ WF_vars(ReceiveSeek)
    /\ WF_vars(ReceiveLen)
    /\ WF_vars(ReceiveBody)

----------------------------------------------------------------------------
(* Claims *)

\* the packet r holds the fields f, as its getters and getData() give them
PacketIs(r, f) ==
    /\ r # None
    /\ getDestination(r) = f.destination
    /\ getSource(r) = f.source
    /\ getType(r) = f.type
    /\ getData(r) = [err |-> Ok, ret |-> f.payload]

\* the first receive() call on the transport has just returned
FirstReturned == Len(returned) = 1 /\ rpc = "done"

\* the transport gave every read all it held, and raised nothing
WholeReads == ~shortRead /\ ~ioError

\* part i is a send() that wrote a frame
IsFrame(i) == parts[i].kind = "send" /\ parts[i].bytes # <<>>

\* C1: for every packet P with a payload of 0..128 bytes, sent with the local
\* address as its source, receive() on exactly the bytes send(stream, P) wrote
\* returns a packet with P's source, destination, type and payload.
C1_RoundTrip ==
    (/\ Len(parts) = 1
     /\ parts[1].kind = "send"
     /\ Len(parts[1].p.payload) <= MAX_DATA_LEN
     /\ FirstReturned
     /\ WholeReads)
    => PacketIs(returned[1], parts[1].p)

\* C2: for every packet with a set payload, send() performs exactly one write:
\* SYN, LEN = payload length + 4, DESTINATION, SOURCE, TYPE, the payload, and
\* CHECKSUM = (DESTINATION + SOURCE + TYPE + sum of the payload) mod 256.
C2_SendWritesFrame ==
    (last.op = "send" /\ payload # None)
    => /\ last.err = Ok
       /\ last.wrote =
            << <<SYN, Len(payload[1]) + 4, getDestination(pkt), getSource(pkt),
                 getType(pkt)>>
               \o payload[1]
               \o <<(getDestination(pkt) + getSource(pkt) + getType(pkt)
                     + Sum(payload[1])) % 256>> >>

\* C3: getData() on a packet whose payload is unset (fresh, or cleared whatever
\* was set before) fails with the no-data error; once setData(b"") has set the
\* empty payload, getData() succeeds and returns the empty byte sequence.
C3_UnsetIsNotEmpty ==
    last.op = "getData"
    => /\ payload = None => last.err = NoDataError
       /\ payload = <<<<>>>> => (last.err = Ok /\ last.ret = <<>>)

\* C4: when the stream holds one complete valid frame, receive() returns that
\* frame's packet however the transport splits the bytes across reads.
C4_PartialReads ==
    (/\ Len(parts) = 1
     /\ IsFrame(1)
     /\ FirstReturned
     /\ ~ioError)
    => PacketIs(returned[1], parts[1].p)

C8_Truncation ==
    (/\ Len(parts) = 1
     /\ parts[1].kind = "truncated"
     /\ FirstReturned)
    => returned[1] = None

C8_Witness ==
    /\ Len(parts) = 1
    /\ parts[1].kind = "truncated"
    /\ Len(parts[1].bytes) > 2
    /\ ChecksumMatches(SliceFrom(parts[1].bytes, 2))
    /\ FirstReturned
    /\ WholeReads
    /\ stream = <<>>
    /\ returned[1] = None

\* C9: setInteger(value, nBytes, signed) succeeds at both ends of the range of
\* that width and signedness and fails with the RangeError one below the
\* minimum and one above the maximum; setSource, setDestination and setType
\* fail with the RangeError for -1 and for 256.
C9_RangeRejection ==
    /\ (last.op = "setInteger" /\ last.args[2] <= MaxNBytes)
       => LET value == last.args[1]
              lo == SpecMin(last.args[2], last.args[3])
              hi == SpecMax(last.args[2], last.args[3])
          IN  /\ value \in {lo, hi} => last.err = Ok
              /\ value \in {lo - 1, hi + 1} => last.err = RangeError
    /\ (last.op \in {"setSource", "setDestination", "setType"}
        /\ last.args[1] \in {-1, 256})
       => last.err = RangeError

\* C10: setData succeeds for every length 0..128 and fails with OverflowError
\* for 129 or more; a failed setData, also one reached through setInteger or
\* setString, leaves the packet as it was; the stored payload length is never
\* above 128.
C10_Step ==
    /\ last'.op = "setData"
       => IF Len(last'.args[1]) <= MAX_DATA_LEN
          THEN /\ last'.err = Ok
               /\ SliceFrom(pkt', DATA_INDEX_DATA) = last'.args[1]
               /\ pkt'[DATA_INDEX_EXPECTED_LEN + 1] = Len(last'.args[1])
          ELSE last'.err = "OverflowError"
    /\ (last'.op \in {"setData", "setInteger", "setString"} /\ last'.err # Ok)
       => pkt' = pkt
    /\ pkt'[DATA_INDEX_EXPECTED_LEN + 1] <= MAX_DATA_LEN
    /\ Len(getData(pkt').ret) <= MAX_DATA_LEN

C10_OverflowBoundary == [][C10_Step]_vars

C10_Witness ==
    /\ last.op \in {"setInteger", "setString"}
    /\ last.err = "OverflowError"
    /\ Len(getData(pkt).ret) = MAX_DATA_LEN

\* value lies in the range of the width n_bytes and the signedness; from width 4
\* on, the range is no narrower than the integers of the model
InSpecRange(value, n_bytes, signed) ==
    /\ signed \/ value >= 0
    /\ IF n_bytes >= 4 THEN TRUE
       ELSE value >= SpecMin(n_bytes, signed) /\ value <= SpecMax(n_bytes, signed)

\* byte i of the little-endian two's complement encoding of value
SpecByte(value, i) ==
    IF i <= 3 THEN ((value % (2 ^ 24)) \div (256 ^ (i - 1))) % 256
    ELSE IF i = 4 THEN ((value - (value % (2 ^ 24))) \div (2 ^ 24)) % 256
    ELSE IF value < 0 THEN 255 ELSE 0

\* C11: for every width, both signednesses and every value of the valid range,
\* after setInteger(value, nBytes, signed) the call getInteger(nBytes, signed)
\* returns value and getData() returns the nBytes-byte little-endian encoding
\* of value, whatever payload the packet held before.
C11_IntegerRoundTrip ==
    (/\ last.op = "setInteger"
     /\ last.args[2] \in GetWidths
     /\ InSpecRange(last.args[1], last.args[2], last.args[3]))
    => /\ last.err = Ok
       /\ getInteger(pkt, last.args[2], last.args[3]) = [err |-> Ok, ret |-> last.args[1]]
       /\ getData(pkt) = [err |-> Ok,
                          ret |-> [i \in 1..last.args[2] |-> SpecByte(last.args[1], i)]]

C11_Witness ==
    /\ last.op = "setInteger"
    /\ last.args = <<-456, 8, TRUE>>
    /\ getInteger(pkt, 8, TRUE).ret = -456
    /\ getData(pkt).ret = <<56, 254, 255, 255, 255, 255, 255, 255>>

\* C12: getInteger(nBytes, signed) called while the stored payload has fewer
\* than nBytes bytes fails with a decoding error instead of returning an integer.
C12_ShortPayload ==
    (/\ last.op = "getInteger"
     /\ payload # None
     /\ Len(payload[1]) < last.args[1])
    => last.err # Ok

\* C13: send() always sets the packet's source to the current local address,
\* whatever source the caller had set; it overwrites the destination and the
\* type only when the argument is supplied; the frame written carries the
\* final destination, source and type.
C13_Step ==
    last'.op = "send"
    => /\ getSource(pkt') = address
       /\ getDestination(pkt') = (IF last'.args[1] = None THEN getDestination(pkt)
                                  ELSE last'.args[1][1])
       /\ getType(pkt') = (IF last'.args[2] = None THEN getType(pkt)
                           ELSE last'.args[2][1])
       /\ last'.wrote # <<>>
          => /\ last'.wrote[1][3] = getDestination(pkt')
             /\ last'.wrote[1][4] = getSource(pkt')
             /\ last'.wrote[1][5] = getType(pkt')

C13_SendOverwrites == [][C13_Step]_vars

C13_Witness ==
    /\ last.op = "send"
    /\ last.args = <<None, <<15>>>>
    /\ address = 1
    /\ getDestination(pkt) = 255
    /\ Len(last.wrote) = 1
    /\ SubSeq(last.wrote[1], 3, 5) = <<255, 1, 15>>

\* C14: send() on a packet whose payload is not set (never set since the packet
\* was made or since the last clear()) fails with the packet's no-data error
\* and writes nothing to the stream.
C14_SendUnset ==
    (last.op = "send" /\ payload = None)
    => (last.err = NoDataError /\ last.wrote = <<>>)

C14_Witness ==
    /\ last.op = "send"
    /\ payload = None
    /\ last.err = NoDataError
    /\ last.wrote = <<>>
    /\ Len(pkt) > DATA_INDEX_DATA
    /\ pkt[DATA_INDEX_DATA + 1] = 65
    /\ getSource(pkt) = 1

\* C16: send() and async_send() write byte-identical output for the same packet
\* contents, destination and type arguments and local address, end alike, and
\* leave the packet in the same state.
C16_Step ==
    last'.op = "async_send"
    => LET r == send(pkt, address, last'.args[1], last'.args[2])
       IN  /\ pkt' = r.data
           /\ last'.err = r.err
           /\ last'.wrote = r.wrote

Returning(value) ==
    /\ Len(returned') = Len(returned) + 1
    /\ returned'[Len(returned')] = value

\* C15: if the transport's read raises an I/O failure at any step of the scan
\* (seeking SYN, reading LEN, reading the body), receive() returns None: the
\* failure does not propagate and the call attempts no further read.
C15_Step ==
    (ioError' /\ ~ioError)
    => /\ rpc \in {"seek", "len", "body"}
       /\ Returning(None)
       /\ rpc' = "done"
       /\ stream' = stream

C15_ReadFailure == [][C15_Step]_vars

C15_Witness ==
    /\ ioError
    /\ Len(parts) = 1
    /\ IsFrame(1)
    /\ Len(stream) = Len(parts[1].bytes) - 2
    /\ returned = <<None>>
    /\ rpc = "done"

\* C17: on a transport that raises no I/O error, receive() returns None only
\* when a read has returned fewer bytes than requested: for every stream
\* content, frames with a LEN of 133..255 and a matching checksum included, it
\* does not give up while it is handed all the bytes it asks for.
C17_Step ==
    (Returning(None) /\ ~ioError')
    => CASE rpc = "seek" -> stream = <<>>
         [] rpc = "len" -> stream = <<>>
         [] rpc = "body" -> Len(stream) - Len(stream') < tlen
         [] OTHER -> FALSE

C17_NoneOnlyWhenExhausted == [][C17_Step]_vars

\* the bytes written to the transport by the parts from i on
RECURSIVE WrittenFrom(_)
WrittenFrom(i) == IF i > Len(parts) THEN <<>> ELSE parts[i].bytes \o WrittenFrom(i + 1)

\* C18: every packet receive() returns was built from consecutive consumed
\* stream bytes SYN, LEN, body with LEN >= 4, a body of exactly LEN bytes whose
\* last byte is the sum of the others mod 256, destination, source and type
\* the body's bytes 0, 1 and 2, and the payload the LEN - 4 bytes between them
\* and the checksum; no returned packet has a payload longer than 128 bytes.
C18_Step ==
    (Len(returned') = Len(returned) + 1 /\ returned'[Len(returned')] # None)
    => LET all == WrittenFrom(1)
           pos == Len(all) - Len(stream)
           body == SubSeq(all, pos + 1, pos + tlen)
           r == returned'[Len(returned')]
       IN  /\ rpc = "body"
           /\ pos >= 2
           /\ all[pos - 1] = SYN
           /\ all[pos] = tlen
           /\ tlen >= MIN_TLEN
           /\ pos + tlen <= Len(all)
           /\ Len(stream') = Len(all) - (pos + tlen)
           /\ body[tlen] = Sum(SubSeq(body, 1, tlen - 1)) % 256
           /\ getDestination(r) = body[1]
           /\ getSource(r) = body[2]
           /\ getType(r) = body[3]
           /\ SliceFrom(r, DATA_INDEX_DATA) = SubSeq(body, 4, tlen - 1)
           /\ r[DATA_INDEX_EXPECTED_LEN + 1] = tlen - 4
           /\ tlen - 4 <= MAX_DATA_LEN

C18_Soundness == [][C18_Step]_vars

C18_Witness ==
    /\ Len(parts) = 2
    /\ parts[1].kind = "corrupt"
    /\ parts[1].p.payload = <<SYN, 6>>
    /\ parts[2].p.payload = <<SYN, 4, 255>>
    /\ Len(returned) = 1
    /\ returned[1] # None
    /\ getData(returned[1]).ret = <<SYN, 4, 255>>
    /\ stream = <<>>

C20_Pass ==
    (rpc \in {"seek", "len", "body"} /\ ~ioError')
    => (rpc' = "done" \/ Len(stream') < Len(stream))

C20_Termination ==
    /\ [][C20_Pass]_vars
    /\ (rpc \in {"seek", "len", "body"}) ~> (rpc = "done")

C20_Witness ==
    /\ Len(parts) = 2
    /\ parts[1].kind = "noise"
    /\ IsFrame(2)
    /\ Len(returned) = 2
    /\ returned[2] = None
    /\ rpc = "done"
    /\ stream = <<>>

====
